---------------------------- MODULE Spec2Model ----------------------------
(***************************************************************************)
(* JPG Timestamper (Pillow Edition), src/timestamp_app_noshell.py.         *)
(*                                                                         *)
(* The GUI thread runs one slot at a time (stamp_jpgs, on_file_processed,  *)
(* create_video, on_video_finished); PillowWorker and VideoWorker threads  *)
(* run beside it and report through queued `finished` signals.             *)
(*                                                                         *)
(* Text is a sequence of one-character strings, so that searching,         *)
(* parsing, sorting and formatting are computed, not assumed.              *)
(***************************************************************************)
EXTENDS Integers, Sequences, FiniteSets, TLC

(***************************************************************************)
(* Bounds of the model.                                                    *)
(***************************************************************************)
\* longest directory listing handed to stamp_jpgs
MaxFiles == 2
\* stamping runs started in one behaviour
MaxRuns == 2
\* video runs started in one behaviour
MaxVideoRuns == 1
\* confirmed deletions of the stamped images
MaxDeleteRuns == 2

(***************************************************************************)
(* Characters and text.                                                    *)
(***************************************************************************)
DigitChars == <<"0", "1", "2", "3", "4", "5", "6", "7", "8", "9">>

IsDigit(c) == \E i \in 1..10 : DigitChars[i] = c

DigitVal(c) == (CHOOSE i \in 1..10 : DigitChars[i] = c) - 1

\* int() of a non-empty run of digits
RECURSIVE ToInt(_)
ToInt(s) ==
    IF s = <<>> THEN 0
    ELSE 10 * ToInt(SubSeq(s, 1, Len(s) - 1)) + DigitVal(s[Len(s)])

AllDigits(s) == \A i \in 1..Len(s) : IsDigit(s[i])

\* str.lower() on the letters that occur in the model's file names
Lower(c) ==
    CASE c = "J" -> "j"
      [] c = "P" -> "p"
      [] c = "G" -> "g"
      [] c = "B" -> "b"
      [] OTHER -> c

LowerStr(s) == [i \in 1..Len(s) |-> Lower(s[i])]

StartsWith(s, p) == Len(s) >= Len(p) /\ SubSeq(s, 1, Len(p)) = p

EndsWith(s, p) ==
    Len(s) >= Len(p) /\ SubSeq(s, Len(s) - Len(p) + 1, Len(s)) = p

DotJpg == <<".", "j", "p", "g">>

(***************************************************************************)
(* datetime: <<year, month, day, hour, minute, second>>.                   *)
(***************************************************************************)
IsLeap(y) == (y % 4 = 0 /\ y % 100 # 0) \/ y % 400 = 0

DaysInMonth(y, m) ==
    IF m = 2 THEN (IF IsLeap(y) THEN 29 ELSE 28)
    ELSE IF m \in {4, 6, 9, 11} THEN 30 ELSE 31

\* the range checks of datetime.datetime(...), which raise ValueError
ValidDateTime(dt) ==
    /\ dt[1] \in 1..9999
    /\ dt[2] \in 1..12
    /\ dt[3] >= 1 /\ dt[3] <= DaysInMonth(dt[1], dt[2])
    /\ dt[4] \in 0..23
    /\ dt[5] \in 0..59
    /\ dt[6] \in 0..59

\* str(n) for n >= 0
RECURSIVE ToStr(_)
ToStr(n) ==
    IF n < 10 THEN <<DigitChars[n + 1]>>
    ELSE ToStr(n \div 10) \o <<DigitChars[(n % 10) + 1]>>

\* format(n, "0<width>d"): zero-padded to at least width characters
RECURSIVE ZeroPad(_, _)
ZeroPad(s, width) == IF Len(s) >= width THEN s ELSE ZeroPad(<<"0">> \o s, width)


(***************************************************************************)
(* datetime.datetime.strptime(text, fmt).  A format is a sequence of       *)
(* directives ("%Y", "%m", ...), blanks and literal characters.  The       *)
(* directive patterns and their order of alternatives are those of         *)
(* CPython's _strptime: the two-digit form is tried before the one-digit   *)
(* form, and the match backtracks when the rest of the format fails.       *)
(***************************************************************************)
ExifFormat == <<"%Y", ":", "%m", ":", "%d", " ", "%H", ":", "%M", ":", "%S">>

FileNameFormat == <<"%Y", "%m", "%d", "_", "%H", "%M", "%S">>

Directives == {"%Y", "%m", "%d", "%H", "%M", "%S"}

NoParse == [ok |-> FALSE, vals |-> <<>>]

\* the two-digit alternatives of a directive's pattern, by value
TwoDigitOk(f, v) ==
    CASE f = "%m" -> v \in 1..12
      [] f = "%d" -> v \in 1..31
      [] f = "%H" -> v \in 0..23
      [] f = "%M" -> v \in 0..59
      [] f = "%S" -> v \in 0..61
      [] OTHER -> FALSE

\* the one-digit alternative of a directive's pattern
OneDigitOk(f, v) == IF f \in {"%m", "%d"} THEN v \in 1..9 ELSE f \in {"%H", "%M", "%S"}

\* number of blanks of text from position i on
RECURSIVE Blanks(_, _)
Blanks(text, i) ==
    IF i <= Len(text) /\ text[i] = " " THEN 1 + Blanks(text, i + 1) ELSE 0

RECURSIVE MatchFrom(_, _, _)
MatchFrom(text, i, fmt) ==
    IF fmt = <<>> THEN
        \* "unconverted data remains" is a ValueError
        IF i = Len(text) + 1 THEN [ok |-> TRUE, vals |-> <<>>] ELSE NoParse
    ELSE
        LET f == Head(fmt)
            rest == Tail(fmt)
            Field(n) ==
                IF i + n - 1 <= Len(text) /\ AllDigits(SubSeq(text, i, i + n - 1))
                THEN LET v == ToInt(SubSeq(text, i, i + n - 1))
                         fits == CASE n = 4 -> TRUE
                                   [] n = 2 -> TwoDigitOk(f, v)
                                   [] OTHER -> OneDigitOk(f, v)
                         r == IF fits THEN MatchFrom(text, i + n, rest) ELSE NoParse
                     IN IF r.ok THEN [ok |-> TRUE, vals |-> <<v>> \o r.vals] ELSE NoParse
                ELSE NoParse
        IN CASE f = "%Y" -> Field(4)
             [] f \in Directives \ {"%Y"} ->
                    IF Field(2).ok THEN Field(2) ELSE Field(1)
             [] f = " " ->
                    \* a blank of the format matches one or more blanks
                    IF Blanks(text, i) >= 1
                    THEN MatchFrom(text, i + Blanks(text, i), rest)
                    ELSE NoParse
             [] OTHER ->
                    IF i <= Len(text) /\ text[i] = f
                    THEN MatchFrom(text, i + 1, rest)
                    ELSE NoParse

\* ok = FALSE stands for ValueError
strptime(text, fmt) ==
    LET r == MatchFrom(text, 1, fmt)
    IN IF r.ok /\ ValidDateTime(r.vals) THEN [ok |-> TRUE, dt |-> r.vals]
       ELSE [ok |-> FALSE, dt |-> <<>>]

(***************************************************************************)
(* re.search(r'(\d{8})_(\d{6})', filename): the leftmost match, or none.   *)
(***************************************************************************)
MatchesAt(name, i) ==
    /\ i + 14 <= Len(name)
    /\ AllDigits(SubSeq(name, i, i + 7))
    /\ name[i + 8] = "_"
    /\ AllDigits(SubSeq(name, i + 9, i + 14))

MatchPositions(name) == {i \in 1..Len(name) : MatchesAt(name, i)}

re_search(name) ==
    IF MatchPositions(name) = {} THEN [found |-> FALSE, text |-> <<>>]
    ELSE LET i == CHOOSE p \in MatchPositions(name) :
                      \A q \in MatchPositions(name) : p <= q
         IN [found |-> TRUE, text |-> SubSeq(name, i, i + 14)]

(***************************************************************************)
(* datetime.datetime.fromtimestamp(seconds since the epoch); the local     *)
(* zone is taken to be UTC.                                                *)
(***************************************************************************)
fromtimestamp(t) ==
    LET days == t \div 86400
        secs == t % 86400
        z == days + 719468
        era == z \div 146097
        doe == z - era * 146097
        yoe == (doe - doe \div 1460 + doe \div 36524 - doe \div 146096) \div 365
        doy == doe - (365 * yoe + yoe \div 4 - yoe \div 100)
        mp == (5 * doy + 2) \div 153
        d == doy - (153 * mp + 2) \div 5 + 1
        m == IF mp < 10 THEN mp + 3 ELSE mp - 9
        y == yoe + era * 400 + (IF m <= 2 THEN 1 ELSE 0)
    IN <<y, m, d, secs \div 3600, (secs % 3600) \div 60, secs % 60>>

(***************************************************************************)
(* Files.  A source file is what the program can observe of it:            *)
(*   name    its file name;                                                *)
(*   exif    what Image.open(...)._getexif() gives:                        *)
(*             "oserror"    Image.open raises OSError (not an image,       *)
(*                          truncated, removed),                           *)
(*             "attrerror"  the image has no _getexif (not a JPEG inside), *)
(*             "none"       no EXIF data,                                  *)
(*             "notag"      EXIF data without tag 36867,                   *)
(*             "tag"        tag 36867 holds `text`;                        *)
(*   mtime   os.path.getmtime: seconds since the epoch, or OSError;        *)
(*   mode, width, height    of the decoded image.                          *)
(***************************************************************************)
ExifOsError == [kind |-> "oserror", text |-> <<>>]
ExifAttrError == [kind |-> "attrerror", text |-> <<>>]
ExifNone == [kind |-> "none", text |-> <<>>]
ExifNoTag == [kind |-> "notag", text |-> <<>>]
ExifTag(text) == [kind |-> "tag", text |-> text]

MTime(t) == [ok |-> TRUE, t |-> t]
MTimeOsError == [ok |-> FALSE, t |-> 0]

Name_a == <<"a", ".", "j", "p", "g">>
Name_dated == <<"2", "0", "2", "4", "0", "1", "0", "2", "_", "0", "3", "0", "4", "0", "5", ".", "J", "P", "G">>
Name_c == <<"c", ".", "j", "p", "g">>
Name_d == <<"d", ".", "j", "p", "g">>
Name_hidden == <<".", "_", "e", ".", "j", "p", "g">>
\* the leftmost match is no date, a later one is
Name_two == <<"1", "2", "3", "4", "5", "6", "7", "8", "9", "_", "2", "0", "2", "4", "0", "1", "0", "1", "_", "1", "2", "0", "0", "0", "0", ".", "j", "p", "g">>
\* a match that is no date (month 13)
Name_month13 == <<"2", "0", "2", "4", "1", "3", "0", "1", "_", "0", "0", "0", "0", "0", "0", ".", "j", "p", "g">>
\* seven digits only before the underscore
Name_short == <<"2", "0", "2", "4", "0", "1", "0", "_", "0", "3", "0", "4", "0", "5", ".", "j", "p", "g">>

Text_exif == <<"2", "0", "2", "2", ":", "0", "3", ":", "0", "4", " ", "0", "5", ":", "0", "6", ":", "0", "7">>
\* one-digit fields, accepted by strptime
Text_exif_short == <<"2", "0", "2", "1", ":", "7", ":", "8", " ", "9", ":", "1", ":", "2">>
\* 30 February
Text_exif_feb30 == <<"2", "0", "2", "4", ":", "0", "2", ":", "3", "0", " ", "1", "0", ":", "0", "0", ":", "0", "0">>
\* trailing text
Text_exif_trail == <<"2", "0", "2", "2", ":", "0", "3", ":", "0", "4", " ", "0", "5", ":", "0", "6", ":", "0", "7", "x">>

\* 2023-11-14 22:13:20 UTC
MTimeA == MTime(1700000000)
\* 2000-02-29 23:59:59 UTC
MTimeB == MTime(951868799)

(***************************************************************************)
(* Log lines: the message and the file it names.                           *)
(***************************************************************************)
LogLine(msg, file) == [msg |-> msg, file |-> file]

NoName == <<>>

(***************************************************************************)
(* TimestampApp.get_timestamp.  outcome is "dt" (a datetime is returned),  *)
(* "none" (None is returned) or "raise" (an exception leaves the method);  *)
(* log holds the lines the method appended to the log.                     *)
(***************************************************************************)
\* the except clause: AttributeError, KeyError, IndexError, ValueError
CaughtExifErrors == {"attrerror", "valueerror"}

\* the try block: "return" with dt, "fall" through, or the exception raised
ReadExif(file) ==
    LET e == file.exif
    IN CASE e.kind = "oserror" -> [end |-> "oserror", dt |-> <<>>]
         [] e.kind = "attrerror" -> [end |-> "attrerror", dt |-> <<>>]
         [] e.kind = "tag" /\ e.text # <<>> ->
                LET r == strptime(e.text, ExifFormat)
                IN IF r.ok THEN [end |-> "return", dt |-> r.dt]
                   ELSE [end |-> "valueerror", dt |-> <<>>]
         [] OTHER -> [end |-> "fall", dt |-> <<>>]

\* the fallbacks: file name, then modification time
FallbackTimestamp(file) ==
    LET m == re_search(file.name)
        r == IF m.found THEN strptime(m.text, FileNameFormat)
             ELSE [ok |-> FALSE, dt |-> <<>>]
    IN IF r.ok THEN [outcome |-> "dt", dt |-> r.dt]
       ELSE IF file.mtime.ok
            THEN [outcome |-> "dt", dt |-> fromtimestamp(file.mtime.t)]
            ELSE [outcome |-> "none", dt |-> <<>>]

\* lines 377-392, with x what the try block ended with
AfterExif(file, x, fallback) ==
    CASE x.end = "return" -> [outcome |-> "dt", dt |-> x.dt, log |-> <<>>]
      [] x.end = "fall" ->
            [outcome |-> fallback.outcome, dt |-> fallback.dt, log |-> <<>>]
      [] x.end \in CaughtExifErrors ->
            [outcome |-> fallback.outcome, dt |-> fallback.dt,
             log |-> <<LogLine("Could not read EXIF data for", file.name)>>]
      [] OTHER -> [outcome |-> "raise", dt |-> <<>>, log |-> <<>>]

get_timestamp(file) == AfterExif(file, ReadExif(file), FallbackTimestamp(file))

(***************************************************************************)
(* The files of the source folder.                                         *)
(***************************************************************************)
Name_png == <<"f", ".", "p", "n", "g">>

SourceFiles == {
    \* a photograph with EXIF DateTimeOriginal
    [name |-> Name_a, exif |-> ExifTag(Text_exif), mtime |-> MTimeA,
     mode |-> "RGB", width |-> 640, height |-> 480],
    \* a PNG with alpha under a .JPG name: no _getexif, not writable as JPEG
    [name |-> Name_dated, exif |-> ExifAttrError, mtime |-> MTimeA,
     mode |-> "RGBA", width |-> 320, height |-> 200],
    \* removed between Image.open and os.path.getmtime
    [name |-> Name_c, exif |-> ExifNone, mtime |-> MTimeOsError,
     mode |-> "RGB", width |-> 640, height |-> 480],
    \* not an image
    [name |-> Name_d, exif |-> ExifOsError, mtime |-> MTimeB,
     mode |-> "RGB", width |-> 0, height |-> 0],
    \* a resource fork
    [name |-> Name_hidden, exif |-> ExifOsError, mtime |-> MTimeB,
     mode |-> "RGB", width |-> 0, height |-> 0],
    [name |-> Name_png, exif |-> ExifNone, mtime |-> MTimeB,
     mode |-> "RGBA", width |-> 320, height |-> 200] }

SourceNames == {f.name : f \in SourceFiles}

FileOf(name) == CHOOSE f \in SourceFiles : f.name = name

\* sequences without repetition of at most n elements of S
Listings(S, n) ==
    UNION {{s \in [1..k -> S] : \A i, j \in 1..k : i # j => s[i] # s[j]} : k \in 0..n}

\* line 328: f.lower().endswith('.jpg') and not f.startswith('._')
IsSourceJpg(f) == EndsWith(LowerStr(f), DotJpg) /\ ~StartsWith(f, <<".", "_">>)

JpgFiles(listing) == SelectSeq(listing, IsSourceJpg)

StampedPrefix == <<"s", "t", "a", "m", "p", "e", "d", "_">>

\* line 349: f"stamped_{img_file}"
StampedName(img_file) == StampedPrefix \o img_file

(***************************************************************************)
(* The program's state.                                                    *)
(***************************************************************************)
VARIABLES
    source_dir,             \* the source folder: [isdir, files (os.listdir order)]
    dest_dir,               \* the names in the destination folder
    all_jpg_files,          \* self.all_jpg_files
    current_file_index,     \* self.current_file_index
    worker,                 \* self.worker: the id of the last PillowWorker, 0 for None
    video_worker,           \* self.video_worker: likewise
    stamp_button,           \* stamp_button.isEnabled()
    create_video_button,
    delete_stamped_button,
    status_indicator,       \* status_indicator.text()
    progress_bar,           \* [max, value]
    log,                    \* the lines of log_text
    message_box,            \* the last QMessageBox.warning shown, "" for none
    font_size_index,        \* font_size_dropdown.currentIndex()
    dual_timestamp,         \* dual_timestamp_checkbox.isChecked()
    crf_index,              \* crf_dropdown.currentIndex()
    fps_index,              \* fps_dropdown.currentIndex()
    pillow_threads,         \* the PillowWorker threads whose run() has not returned
    video_threads,          \* the VideoWorker threads whose run() has not returned
    events,                 \* signals queued for the GUI thread, oldest first
    next_id,                \* identities of threads
    slot_exception,         \* an exception has left a slot of the GUI thread
    runs,                   \* stamping runs started
    video_runs,             \* video runs started
    started,                \* history: PillowWorkers started in this run (index, file)
    skipped,                \* history: indexes skipped in this run
    encoder_calls,          \* history: the invocations of the encoder
    ts_in, ts_out,          \* get_timestamp on its own: argument and result
    ov_in, drawn            \* add_timestamp_with_pillow on its own: inputs and lines drawn

app_vars == <<source_dir, dest_dir, all_jpg_files, current_file_index, worker,
              video_worker, stamp_button, create_video_button,
              delete_stamped_button, status_indicator, progress_bar, log,
              message_box, font_size_index, dual_timestamp, crf_index, fps_index,
              pillow_threads, video_threads, events, next_id, slot_exception,
              runs, video_runs, started, skipped, encoder_calls>>

vars == <<app_vars, ts_in, ts_out, ov_in, drawn>>

(***************************************************************************)
(* TimestampApp.get_font_size                                              *)
(***************************************************************************)
get_font_size(index) == IF index = 0 THEN 24 ELSE IF index = 1 THEN 48 ELSE 72

(***************************************************************************)
(* TimestampApp.process_next_jpg, from index idx with the log lg.  The     *)
(* method calls itself after a skipped file, so one call can pass several  *)
(* files.  end is "complete" (past the last file), "start" (a PillowWorker *)
(* is started for files[index + 1]) or "raise" (get_timestamp raised and   *)
(* the exception leaves the slot).                                         *)
(***************************************************************************)
RECURSIVE process_next_jpg(_, _, _, _)
\* lines 352-365, with r the result of get_timestamp for files[idx + 1]
AfterTimestamp(files, idx, lg, skip, r) ==
    CASE r.outcome = "raise" ->
            [end |-> "raise", index |-> idx, skipped |-> skip, dt |-> <<>>,
             log |-> lg \o r.log]
      [] r.outcome = "none" ->
            process_next_jpg(files, idx + 1,
                lg \o r.log \o
                    <<LogLine("Skipping - could not determine timestamp.", files[idx + 1])>>,
                skip \cup {idx})
      [] OTHER ->
            [end |-> "start", index |-> idx, skipped |-> skip, dt |-> r.dt,
             log |-> lg \o r.log]

process_next_jpg(files, idx, lg, skip) ==
    IF idx >= Len(files) THEN
        [end |-> "complete", index |-> idx, skipped |-> skip, dt |-> <<>>,
         log |-> Append(lg, LogLine("All images processed successfully!", NoName))]
    ELSE AfterTimestamp(files, idx, lg, skip, get_timestamp(FileOf(files[idx + 1])))

\* lines 358-363: the PillowWorker built for files[idx + 1]
NewPillowWorker(id, img_file, dt) ==
    [id |-> id,
     source_path |-> img_file,
     dest_path |-> StampedName(img_file),
     timestamp_dt |-> dt,
     font_size |-> get_font_size(font_size_index),
     position |-> FileOf(img_file).width,
     dual_stamp |-> dual_timestamp]

\* The state after a call of process_next_jpg that gave r and ends a slot; b
\* holds what the slot has set before the call.
Proceeded(files, b, r) ==
    /\ current_file_index' = r.index
    /\ log' = r.log
    /\ skipped' = b.skipped \cup r.skipped
    /\ stamp_button' = IF r.end = "complete" THEN TRUE ELSE b.button
    /\ status_indicator' = IF r.end = "complete" THEN "Complete" ELSE b.status
    /\ slot_exception' = (slot_exception \/ r.end = "raise")
    /\ IF r.end = "start"
       THEN /\ pillow_threads' = pillow_threads \cup
                   {NewPillowWorker(next_id, files[r.index + 1], r.dt)}
            /\ worker' = next_id
            /\ next_id' = next_id + 1
            /\ started' = Append(b.started,
                   [index |-> r.index, file |-> files[r.index + 1], id |-> next_id])
       ELSE /\ started' = b.started
            /\ UNCHANGED <<pillow_threads, worker, next_id>>

Proceed(files, b) == Proceeded(files, b, process_next_jpg(files, b.index, b.log, {}))

(***************************************************************************)
(* TimestampApp.stamp_jpgs: a click on the stamp button.  A disabled       *)
(* button delivers no click.                                               *)
(***************************************************************************)
\* a stamp button that line 336 does not disable
StampButtonNeverDisabled == TRUE

StampButtonClickable == stamp_button

stamp_jpgs ==
    /\ StampButtonClickable
    /\ runs < MaxRuns
    /\ IF ~source_dir.isdir THEN
           /\ message_box' = "Source directory does not exist"
           /\ UNCHANGED <<all_jpg_files, current_file_index, log, skipped, stamp_button,
                          status_indicator, slot_exception, pillow_threads, worker,
                          next_id, started, progress_bar, runs>>
       ELSE LET files == JpgFiles(source_dir.files)
            IN /\ all_jpg_files' = files
               /\ IF files = <<>> THEN
                      /\ message_box' = "No JPG files found."
                      /\ UNCHANGED <<current_file_index, log, skipped, stamp_button,
                                     status_indicator, slot_exception, pillow_threads,
                                     worker, next_id, started, progress_bar, runs>>
                  ELSE
                      /\ progress_bar' = [progress_bar EXCEPT !.max = Len(files)]
                      /\ runs' = runs + 1
                      /\ Proceed(files,
                             [index |-> 0, button |-> FALSE, status |-> status_indicator,
                              started |-> <<>>, skipped |-> {},
                              log |-> Append(log,
                                  LogLine("Starting timestamp process with Pillow...", NoName))])
                      /\ UNCHANGED message_box
    /\ UNCHANGED <<source_dir, dest_dir, video_worker, create_video_button,
                   delete_stamped_button, font_size_index, dual_timestamp, crf_index,
                   fps_index, video_threads, events, video_runs, encoder_calls,
                   ts_in, ts_out, ov_in, drawn>>

(***************************************************************************)
(* PillowWorker.run, in its own thread: stamp the image, write it to       *)
(* dest_path, emit finished.  Saving an image with an alpha channel as     *)
(* JPEG raises OSError.                                                    *)
(***************************************************************************)
StampSucceeds(w) == FileOf(w.source_path).mode = "RGB"

PillowWorker_run(w) ==
    /\ w \in pillow_threads
    /\ pillow_threads' = pillow_threads \ {w}
    /\ IF StampSucceeds(w)
       THEN /\ dest_dir' = dest_dir \cup {w.dest_path}
            /\ events' = Append(events,
                   [sig |-> "pillow_finished", success |-> TRUE,
                    message |-> LogLine("Processed:", w.source_path)])
       ELSE /\ dest_dir' = dest_dir
            /\ events' = Append(events,
                   [sig |-> "pillow_finished", success |-> FALSE,
                    message |-> LogLine("Error processing", w.source_path)])
    /\ UNCHANGED <<source_dir, all_jpg_files, current_file_index, worker, video_worker,
                   stamp_button, create_video_button, delete_stamped_button,
                   status_indicator, progress_bar, log, message_box, font_size_index,
                   dual_timestamp, crf_index, fps_index, video_threads, next_id,
                   slot_exception, runs, video_runs, started, skipped, encoder_calls,
                   ts_in, ts_out, ov_in, drawn>>

(***************************************************************************)
(* TimestampApp.on_file_processed: the GUI thread takes a PillowWorker's   *)
(* finished signal from its queue.                                         *)
(***************************************************************************)
on_file_processed ==
    /\ events # <<>>
    /\ Head(events).sig = "pillow_finished"
    /\ events' = Tail(events)
    /\ progress_bar' = [progress_bar EXCEPT !.value = current_file_index + 1]
    /\ Proceed(all_jpg_files,
           [index |-> current_file_index + 1, button |-> stamp_button,
            status |-> IF Head(events).success THEN status_indicator ELSE "Error",
            started |-> started, skipped |-> skipped,
            log |-> Append(log, Head(events).message)])
    /\ UNCHANGED <<source_dir, dest_dir, all_jpg_files, video_worker,
                   create_video_button, delete_stamped_button, message_box,
                   font_size_index, dual_timestamp, crf_index, fps_index,
                   video_threads, runs, video_runs, encoder_calls,
                   ts_in, ts_out, ov_in, drawn>>

(***************************************************************************)
(* Order of text: Python compares strings by code point.                   *)
(***************************************************************************)
\* the characters of the model's names, in code point order
CodePointOrder == <<" ", "%", "(", ")", ",", "-", ".", "0", "1", "2", "3", "4", "5", "6", "7", "8", "9", ":", "A", "B", "E", "G", "J", "L", "N", "P", "Q", "S", "V", "_", "a", "b", "c", "d", "e", "f", "g", "h", "i", "j", "k", "l", "m", "n", "o", "p", "q", "r", "s", "t", "u", "v", "w", "x", "y", "z">>

Ord(c) == CHOOSE i \in 1..Len(CodePointOrder) : CodePointOrder[i] = c

RECURSIVE StrLess(_, _)
StrLess(a, b) ==
    IF b = <<>> THEN FALSE
    ELSE IF a = <<>> THEN TRUE
    ELSE IF Head(a) # Head(b) THEN Ord(Head(a)) < Ord(Head(b))
    ELSE StrLess(Tail(a), Tail(b))

\* s with x put before the first element that is greater than x
RECURSIVE Insert(_, _)
Insert(x, s) ==
    IF s = <<>> THEN <<x>>
    ELSE IF StrLess(x, Head(s)) THEN <<x>> \o s
    ELSE <<Head(s)>> \o Insert(x, Tail(s))

\* a sort that leaves the list as os.listdir gave it
Unsorted(s) == s

\* sorted(s)
RECURSIVE sorted(_)
sorted(s) == IF s = <<>> THEN <<>> ELSE Insert(Head(s), sorted(Tail(s)))

(***************************************************************************)
(* The video stage.                                                        *)
(***************************************************************************)
\* lines 250-254 and 262: the entries of the dropdowns
CrfItems == <<<<"1", "7", " ", "(", "E", "x", "c", "e", "l", "l", "e", "n", "t", " ", "Q", "u", "a", "l", "i", "t", "y", ",", " ", "G", "o", "o", "d", " ", "S", "i", "z", "e", ")">>,
              <<"1", "0", " ", "(", "N", "e", "a", "r", "-", "A", "r", "c", "h", "i", "v", "a", "l", ",", " ", "L", "a", "r", "g", "e", " ", "S", "i", "z", "e", ")">>,
              <<"6", " ", "(", "E", "x", "t", "r", "e", "m", "e", " ", "Q", "u", "a", "l", "i", "t", "y", ",", " ", "V", "e", "r", "y", " ", "L", "a", "r", "g", "e", " ", "S", "i", "z", "e", ")">>>>

FpsItems == <<<<"1", "5">>, <<"3", "0">>>>

\* text.split(' ')[0]
RECURSIVE FirstWord(_)
FirstWord(text) ==
    IF text = <<>> \/ Head(text) = " " THEN <<>>
    ELSE <<Head(text)>> \o FirstWord(Tail(text))

\* line 408: f.startswith('stamped_') and f.lower().endswith('.jpg')
IsStampedJpg(f) == StartsWith(f, StampedPrefix) /\ EndsWith(LowerStr(f), DotJpg)

\* line 115: f"image-{i:04d}.jpg"
ImageName(i) ==
    <<"i", "m", "a", "g", "e", "-">> \o ZeroPad(ToStr(i), 4) \o DotJpg

\* lines 113-116: the copies made for enumerate(image_files), in order
CopyAll(image_files) ==
    [k \in 1..Len(image_files) |->
        [src |-> image_files[k], dst |-> ImageName(k - 1)]]

\* a command that reads the dropdowns when the encoder is run
ffmpeg_command_late(v) ==
    [program |-> "ffmpeg", framerate |-> FpsItems[fps_index + 1],
     input |-> "image-%04d.jpg", codec |-> "libx264", preset |-> "slow",
     crf |-> FirstWord(CrfItems[crf_index + 1]), pix_fmt |-> "yuv420p"]

\* lines 124-134: the arguments of the encoder that vary, and the fixed ones
ffmpeg_command(v) ==
    [program |-> "ffmpeg", framerate |-> v.fps, input |-> "image-%04d.jpg",
     codec |-> "libx264", preset |-> "slow", crf |-> v.crf, pix_fmt |-> "yuv420p"]

\* line 418: the VideoWorker built by create_video
NewVideoWorker(id, stamped_files) ==
    [id |-> id,
     image_files |-> stamped_files,
     crf |-> FirstWord(CrfItems[crf_index + 1]),
     fps |-> FpsItems[fps_index + 1],
     phase |-> "copy",
     temp_dir |-> <<>>,
     \* history: what the dropdowns and the folder showed at the click
     selected |-> [crf_index |-> crf_index, fps_index |-> fps_index],
     listed |-> dest_dir]


\* every order in which os.listdir can give the names of S
Orders(S) == {s \in Listings(S, Cardinality(S)) : Len(s) = Cardinality(S)}

(***************************************************************************)
(* TimestampApp.create_video: a click on Create Video.  The destination    *)
(* folder exists (lines 295 and 310 create it).                            *)
(***************************************************************************)
CreateVideoButtonClickable == create_video_button

create_video ==
    /\ CreateVideoButtonClickable
    /\ video_runs < MaxVideoRuns
    /\ \E listing \in Orders(dest_dir) :
         LET stamped_files == sorted(SelectSeq(listing, IsStampedJpg))
         IN IF stamped_files = <<>> THEN
                /\ message_box' = "No stamped images found in the destination folder."
                /\ UNCHANGED <<video_worker, video_threads, next_id, create_video_button,
                               delete_stamped_button, log, video_runs>>
            ELSE
                /\ video_worker' = next_id
                /\ video_threads' = video_threads \cup
                       {NewVideoWorker(next_id, stamped_files)}
                /\ next_id' = next_id + 1
                /\ create_video_button' = FALSE
                /\ delete_stamped_button' = FALSE
                /\ log' = Append(log, LogLine("Starting video creation with CRF and FPS",
                              FirstWord(CrfItems[crf_index + 1]) \o <<" ">> \o
                                  FpsItems[fps_index + 1]))
                /\ video_runs' = video_runs + 1
                /\ UNCHANGED message_box
    /\ UNCHANGED <<source_dir, dest_dir, all_jpg_files, current_file_index, worker,
                   stamp_button, status_indicator, progress_bar, font_size_index,
                   dual_timestamp, crf_index, fps_index, pillow_threads, events,
                   slot_exception, runs, started, skipped, encoder_calls,
                   ts_in, ts_out, ov_in, drawn>>

VideoProgress(text) ==
    [sig |-> "video_progress", success |-> TRUE, message |-> LogLine(text, NoName)]

VideoFinished(ok, text) ==
    [sig |-> "video_finished", success |-> ok, message |-> LogLine(text, NoName)]

(***************************************************************************)
(* VideoWorker.run, in its own thread, in two steps.                       *)
(* Lines 109-118: the temporary directory and the copies.  shutil.copy     *)
(* raises when a file is gone or the disk is full; run() then emits        *)
(* finished(False, ...).                                                   *)
(***************************************************************************)
VideoWorker_copy(v) ==
    /\ v \in video_threads
    /\ v.phase = "copy"
    /\ \E disk_ok \in BOOLEAN :
         IF disk_ok /\ \A k \in 1..Len(v.image_files) : v.image_files[k] \in dest_dir
         THEN /\ video_threads' = (video_threads \ {v}) \cup
                     {[v EXCEPT !.phase = "encode", !.temp_dir = CopyAll(v.image_files)]}
              /\ events' = events \o
                     <<VideoProgress("Created temporary directory"),
                       VideoProgress("Renamed and copied all stamped images.")>>
         ELSE /\ video_threads' = video_threads \ {v}
              /\ events' = events \o
                     <<VideoProgress("Created temporary directory"),
                       VideoFinished(FALSE, "Error creating video")>>
    /\ UNCHANGED <<source_dir, dest_dir, all_jpg_files, current_file_index, worker,
                   video_worker, stamp_button, create_video_button,
                   delete_stamped_button, status_indicator, progress_bar, log,
                   message_box, font_size_index, dual_timestamp, crf_index, fps_index,
                   pillow_threads, next_id, slot_exception, runs, video_runs, started,
                   skipped, encoder_calls, ts_in, ts_out, ov_in, drawn>>

(***************************************************************************)
(* Lines 120-143: the encoder is run on the temporary directory and its    *)
(* return code decides the signal.  subprocess.Popen raises OSError when   *)
(* the encoder cannot be launched (no ffmpeg on the path).                 *)
(***************************************************************************)
VideoWorker_encode(v) ==
    /\ v \in video_threads
    /\ v.phase = "encode"
    /\ video_threads' = video_threads \ {v}
    /\ \E result \in {"returncode 0", "returncode 1", "OSError"} :
         IF result = "OSError"
         THEN /\ UNCHANGED encoder_calls
              /\ events' = events \o
                     <<VideoProgress("Running command"),
                       VideoFinished(FALSE, "Error creating video")>>
         ELSE /\ encoder_calls' = Append(encoder_calls,
                     [id |-> v.id, command |-> ffmpeg_command(v), frames |-> v.temp_dir,
                      selected |-> v.selected, listed |-> v.listed])
              /\ events' = events \o
                     <<VideoProgress("Running command"),
                       IF result = "returncode 0"
                       THEN VideoFinished(TRUE, "Video created successfully")
                       ELSE VideoFinished(FALSE, "FFmpeg error")>>
    /\ UNCHANGED <<source_dir, dest_dir, all_jpg_files, current_file_index, worker,
                   video_worker, stamp_button, create_video_button,
                   delete_stamped_button, status_indicator, progress_bar, log,
                   message_box, font_size_index, dual_timestamp, crf_index, fps_index,
                   pillow_threads, next_id, slot_exception, runs, video_runs, started,
                   skipped, ts_in, ts_out, ov_in, drawn>>

(***************************************************************************)
(* The GUI thread takes a VideoWorker's signal from its queue: progress is *)
(* connected to log, finished to on_video_finished.                        *)
(***************************************************************************)
on_video_progress ==
    /\ events # <<>>
    /\ Head(events).sig = "video_progress"
    /\ events' = Tail(events)
    /\ log' = Append(log, Head(events).message)
    /\ UNCHANGED <<source_dir, dest_dir, all_jpg_files, current_file_index, worker,
                   video_worker, stamp_button, create_video_button,
                   delete_stamped_button, status_indicator, progress_bar,
                   message_box, font_size_index, dual_timestamp, crf_index, fps_index,
                   pillow_threads, video_threads, next_id, slot_exception, runs,
                   video_runs, started, skipped, encoder_calls,
                   ts_in, ts_out, ov_in, drawn>>

on_video_finished ==
    /\ events # <<>>
    /\ Head(events).sig = "video_finished"
    /\ events' = Tail(events)
    /\ log' = Append(log, Head(events).message)
    /\ create_video_button' = TRUE
    /\ IF Head(events).success
       THEN /\ status_indicator' = "Video Ready"
            /\ delete_stamped_button' = TRUE
       ELSE /\ status_indicator' = "Video Error"
            /\ UNCHANGED delete_stamped_button
    /\ UNCHANGED <<source_dir, dest_dir, all_jpg_files, current_file_index, worker,
                   video_worker, stamp_button, progress_bar,
                   message_box, font_size_index, dual_timestamp, crf_index, fps_index,
                   pillow_threads, video_threads, next_id, slot_exception, runs,
                   video_runs, started, skipped, encoder_calls,
                   ts_in, ts_out, ov_in, drawn>>

(***************************************************************************)
(* TimestampApp.delete_stamped_images: a click on Delete Stamped Images    *)
(* and the answer to the question box.  A disabled button delivers no      *)
(* click.                                                                  *)
(***************************************************************************)
\* lines 447-452: the "Error deleting" lines, in the order of the listing
RECURSIVE DeleteErrors(_, _)
DeleteErrors(listing, failed) ==
    IF listing = <<>> THEN <<>>
    ELSE IF Head(listing) \in failed
         THEN <<LogLine("Error deleting", Head(listing))>> \o
                  DeleteErrors(Tail(listing), failed)
         ELSE DeleteErrors(Tail(listing), failed)

\* lines 443-456: the lines logged by a deletion that removed the files
\* removed and could not remove the files failed
DeleteLog(listing, removed, failed) ==
    <<LogLine("Deleting stamped images...", NoName)>> \o
    DeleteErrors(listing, failed) \o
    <<LogLine("Deleted files.", ToStr(Cardinality(removed)))>> \o
    (IF failed # {}
     THEN <<LogLine("Failed to delete files.", ToStr(Cardinality(failed)))>>
     ELSE <<>>)

\* lines 443-457 for a listing of the folder: os.remove raises OSError for
\* the files failed, which stay in the folder
DeleteListed(listing, stamped, failed) ==
    /\ dest_dir' = dest_dir \ (stamped \ failed)
    /\ log' = log \o DeleteLog(listing, stamped \ failed, failed)
    /\ delete_stamped_button' = FALSE
    /\ UNCHANGED slot_exception

\* os.listdir (line 446) is outside the try of lines 448-452: when it raises
\* OSError (the folder has been removed or cannot be read) the exception
\* leaves the slot after the first log line and before line 457
DeleteRaised ==
    /\ log' = Append(log, LogLine("Deleting stamped images...", NoName))
    /\ slot_exception' = TRUE
    /\ UNCHANGED <<dest_dir, delete_stamped_button>>

DeleteStampedButtonClickable == delete_stamped_button

\* the confirmed deletions so far, each of which logged its first line
DeleteRuns ==
    Cardinality({i \in 1..Len(log) :
                    log[i] = LogLine("Deleting stamped images...", NoName)})

delete_stamped_images ==
    /\ DeleteStampedButtonClickable
    /\ DeleteRuns < MaxDeleteRuns
    /\ \E reply \in {"Yes", "No"} :
         IF reply = "No"
         THEN /\ message_box' = "Confirm Deletion: No"
              /\ UNCHANGED <<dest_dir, log, delete_stamped_button, slot_exception>>
         ELSE /\ message_box' = "Confirm Deletion: Yes"
              /\ \E listdir \in {"OSError", "listing"} :
                   IF listdir = "OSError"
                   THEN DeleteRaised
                   ELSE \E listing \in Orders(dest_dir) :
                            \E failed \in SUBSET {f \in dest_dir : IsStampedJpg(f)} :
                                DeleteListed(listing,
                                             {f \in dest_dir : IsStampedJpg(f)}, failed)
    /\ UNCHANGED <<source_dir, all_jpg_files, current_file_index, worker,
                   video_worker, stamp_button, create_video_button,
                   status_indicator, progress_bar, font_size_index, dual_timestamp,
                   crf_index, fps_index, pillow_threads, video_threads, events,
                   next_id, runs, video_runs, started, skipped, encoder_calls,
                   ts_in, ts_out, ov_in, drawn>>

(***************************************************************************)
(* The user changes a dropdown.                                            *)
(***************************************************************************)
select_crf(i) ==
    /\ i # crf_index
    /\ crf_index' = i
    /\ UNCHANGED <<source_dir, dest_dir, all_jpg_files, current_file_index, worker,
                   video_worker, stamp_button, create_video_button,
                   delete_stamped_button, status_indicator, progress_bar, log,
                   message_box, font_size_index, dual_timestamp, fps_index,
                   pillow_threads, video_threads, events, next_id, slot_exception,
                   runs, video_runs, started, skipped, encoder_calls,
                   ts_in, ts_out, ov_in, drawn>>

select_fps(i) ==
    /\ i # fps_index
    /\ fps_index' = i
    /\ UNCHANGED <<source_dir, dest_dir, all_jpg_files, current_file_index, worker,
                   video_worker, stamp_button, create_video_button,
                   delete_stamped_button, status_indicator, progress_bar, log,
                   message_box, font_size_index, dual_timestamp, crf_index,
                   pillow_threads, video_threads, events, next_id, slot_exception,
                   runs, video_runs, started, skipped, encoder_calls,
                   ts_in, ts_out, ov_in, drawn>>

(***************************************************************************)
(* The application.                                                        *)
(***************************************************************************)
NoFile == [name |-> NoName, exif |-> ExifNone, mtime |-> MTimeOsError]

NotCalled == [outcome |-> "not called", dt |-> <<>>, log |-> <<>>]

NoOverlay == [file |-> NoName, called |-> FALSE, font_size_index |-> 0, dual_timestamp |-> FALSE, text_width |-> <<>>, text_height |-> <<>>]

\* lines 171-295: the window after init_ui
InitWidgets ==
    /\ all_jpg_files = <<>>
    /\ current_file_index = 0
    /\ worker = 0
    /\ video_worker = 0
    /\ stamp_button = TRUE
    /\ create_video_button = TRUE
    /\ delete_stamped_button = FALSE
    /\ status_indicator = "Ready"
    /\ progress_bar = [max |-> 100, value |-> -1]
    /\ log = <<>>
    /\ message_box = ""
    /\ font_size_index = 1
    /\ dual_timestamp = TRUE
    /\ crf_index = 0
    /\ fps_index = 1
    /\ pillow_threads = {}
    /\ video_threads = {}
    /\ events = <<>>
    /\ next_id = 1
    /\ slot_exception = FALSE
    /\ runs = 0
    /\ video_runs = 0
    /\ started = <<>>
    /\ skipped = {}
    /\ encoder_calls = <<>>

Idle == ts_in = NoFile /\ ts_out = NotCalled /\ ov_in = NoOverlay /\ drawn = <<>>

Init ==
    /\ InitWidgets
    /\ source_dir \in [isdir : BOOLEAN, files : Listings(SourceNames, MaxFiles)]
    /\ source_dir.isdir \/ source_dir.files = <<>>
    /\ dest_dir = {}
    /\ Idle

Next ==
    \/ stamp_jpgs
    \/ \E w \in pillow_threads : PillowWorker_run(w)
    \/ on_file_processed
    \/ create_video
    \/ \E v \in video_threads : VideoWorker_copy(v)
    \/ \E v \in video_threads : VideoWorker_encode(v)
    \/ on_video_progress
    \/ on_video_finished
    \/ delete_stamped_images
    \/ \E i \in 0..2 : select_crf(i)
    \/ \E i \in 0..1 : select_fps(i)

Spec == Init /\ [][Next]_vars


(***************************************************************************)
(* The stamping stage alone: the video stage writes none of the variables  *)
(* the stamping slots read, except log and status_indicator.               *)
(***************************************************************************)
NextStamp ==
    \/ stamp_jpgs
    \/ \E w \in pillow_threads : PillowWorker_run(w)
    \/ on_file_processed

SpecStamp == Init /\ [][NextStamp]_vars

(***************************************************************************)
(* get_timestamp on its own: every combination of a file name, an EXIF     *)
(* reading and a modification time.                                        *)
(***************************************************************************)
TsNames == {Name_a, Name_dated, Name_two, Name_month13, Name_short}

TsExifs == {ExifOsError, ExifAttrError, ExifNone, ExifNoTag, ExifTag(<<>>),
            ExifTag(Text_exif), ExifTag(Text_exif_short), ExifTag(Text_exif_feb30),
            ExifTag(Text_exif_trail)}

TsMTimes == {MTimeA, MTimeB, MTimeOsError}

TsFiles == [name : TsNames, exif : TsExifs, mtime : TsMTimes]

InitTs ==
    /\ InitWidgets
    /\ source_dir = [isdir |-> TRUE, files |-> <<>>]
    /\ dest_dir = {}
    /\ ts_in \in TsFiles
    /\ ts_out = NotCalled
    /\ ov_in = NoOverlay
    /\ drawn = <<>>

CallGetTimestamp ==
    /\ ts_out = NotCalled
    /\ ts_out' = get_timestamp(ts_in)
    /\ UNCHANGED <<app_vars, ts_in, ov_in, drawn>>

NextTs == CallGetTimestamp

SpecTs == InitTs /\ [][NextTs]_vars

(***************************************************************************)
(* The video stage alone, on a destination folder that holds any of these  *)
(* names.                                                                  *)
(***************************************************************************)
\* most names a destination folder holds in the model
MaxDestFiles == 3

DestNames == {<<"s", "t", "a", "m", "p", "e", "d", "_", "a", ".", "j", "p", "g">>,
              <<"s", "t", "a", "m", "p", "e", "d", "_", "B", ".", "J", "P", "G">>,
              <<"s", "t", "a", "m", "p", "e", "d", "_", "1", "0", ".", "j", "p", "g">>,
              <<"s", "t", "a", "m", "p", "e", "d", "_", "9", ".", "j", "p", "g">>,
              <<"a", ".", "j", "p", "g">>,
              <<"s", "t", "a", "m", "p", "e", "d", "_", "f", ".", "p", "n", "g">>}

InitVideo ==
    /\ InitWidgets
    /\ source_dir = [isdir |-> TRUE, files |-> <<>>]
    /\ dest_dir \in {S \in SUBSET DestNames : Cardinality(S) <= MaxDestFiles}
    /\ Idle

NextVideo ==
    \/ create_video
    \/ \E v \in video_threads : VideoWorker_copy(v)
    \/ \E v \in video_threads : VideoWorker_encode(v)
    \/ on_video_progress
    \/ on_video_finished
    \/ \E i \in 0..2 : select_crf(i)
    \/ \E i \in 0..1 : select_fps(i)

SpecVideo == InitVideo /\ [][NextVideo]_vars

(***************************************************************************)
(* The video stage with the deletion of the stamped images, the dropdowns  *)
(* left as they are.                                                       *)
(***************************************************************************)
NextDelete ==
    \/ create_video
    \/ \E v \in video_threads : VideoWorker_copy(v)
    \/ \E v \in video_threads : VideoWorker_encode(v)
    \/ on_video_progress
    \/ on_video_finished
    \/ delete_stamped_images

SpecDelete == InitVideo /\ [][NextDelete]_vars


(***************************************************************************)
(* PillowWorker.add_timestamp_with_pillow: the text drawn on the image.    *)
(***************************************************************************)
\* strftime("%Y-%m-%d") and strftime("%H:%M:%S")
FormatDate(dt) ==
    ZeroPad(ToStr(dt[1]), 4) \o <<"-">> \o ZeroPad(ToStr(dt[2]), 2) \o <<"-">> \o
        ZeroPad(ToStr(dt[3]), 2)

FormatTime(dt) ==
    ZeroPad(ToStr(dt[4]), 2) \o <<":">> \o ZeroPad(ToStr(dt[5]), 2) \o <<":">> \o
        ZeroPad(ToStr(dt[6]), 2)

\* What draw.textbbox can measure with the font of lines 57-61: Arial at
\* font_size, or the built-in bitmap font when Arial.ttf cannot be loaded.  A
\* font is its advance per character and the ink height of each line, which
\* is at most the font size.
FontMetrics(font_size) ==
    [font : {"Arial.ttf"},
     advance : {font_size \div 2, (2 * font_size) \div 3},
     time_height : {0, font_size \div 2, font_size - 1, font_size},
     date_height : {0, font_size \div 2, font_size - 1, font_size}]
    \cup {[font |-> "default", advance |-> 6, time_height |-> 11, date_height |-> 11]}

\* lines 68-70: text_width and text_height of the bounding box
TextWidth(text, m) == Len(text) * m.advance

\* a placement that leaves out the vertical offset of the line
get_text_position_flat(w, img, text_width, text_height, y_offset) ==
    [x |-> w.position - text_width - 40,
     y |-> img.height - text_height - 20]

\* lines 67-74: get_text_position
get_text_position(w, img, text_width, text_height, y_offset) ==
    [x |-> w.position - text_width - 40,
     y |-> img.height - text_height - y_offset - 20]

DrawnLine(text, pos) == [text |-> text, x |-> pos.x, y |-> pos.y, fill |-> "white"]

\* lines 76-84: the calls of draw.text, in order
add_timestamp_with_pillow(w, img, m) ==
    IF w.dual_stamp
    THEN <<DrawnLine(FormatTime(w.timestamp_dt),
               get_text_position(w, img, TextWidth(FormatTime(w.timestamp_dt), m),
                   m.time_height, w.font_size + 20)),
           DrawnLine(FormatDate(w.timestamp_dt),
               get_text_position(w, img, TextWidth(FormatDate(w.timestamp_dt), m),
                   m.date_height, 10))>>
    ELSE <<DrawnLine(FormatDate(w.timestamp_dt),
               get_text_position(w, img, TextWidth(FormatDate(w.timestamp_dt), m),
                   m.date_height, 10))>>

(***************************************************************************)
(* The overlay on its own: the user sets the font size and the checkbox,   *)
(* process_next_jpg builds the worker for a file (lines 358-363) and the   *)
(* worker draws.                                                           *)
(***************************************************************************)
select_font_size(i) ==
    /\ i # font_size_index
    /\ font_size_index' = i
    /\ UNCHANGED <<source_dir, dest_dir, all_jpg_files, current_file_index, worker,
                   video_worker, stamp_button, create_video_button,
                   delete_stamped_button, status_indicator, progress_bar, log,
                   message_box, dual_timestamp, crf_index, fps_index,
                   pillow_threads, video_threads, events, next_id, slot_exception,
                   runs, video_runs, started, skipped, encoder_calls,
                   ts_in, ts_out, ov_in, drawn>>

toggle_dual_timestamp ==
    /\ dual_timestamp' = ~dual_timestamp
    /\ UNCHANGED <<source_dir, dest_dir, all_jpg_files, current_file_index, worker,
                   video_worker, stamp_button, create_video_button,
                   delete_stamped_button, status_indicator, progress_bar, log,
                   message_box, font_size_index, crf_index, fps_index,
                   pillow_threads, video_threads, events, next_id, slot_exception,
                   runs, video_runs, started, skipped, encoder_calls,
                   ts_in, ts_out, ov_in, drawn>>

\* the files for which process_next_jpg starts a worker
OverlayFiles == {Name_a, Name_dated}

InitOverlay ==
    /\ InitWidgets
    /\ source_dir = [isdir |-> TRUE, files |-> <<>>]
    /\ dest_dir = {}
    /\ ts_in = NoFile
    /\ ts_out = NotCalled
    /\ ov_in \in [file : OverlayFiles, called : {FALSE}, font_size_index : {0},
                  dual_timestamp : {FALSE}, text_width : {<<>>}, text_height : {<<>>}]
    /\ drawn = <<>>

\* the widths of the lines drawn with font m, in the order drawn
MeasuredWidths(w, m) ==
    IF w.dual_stamp
    THEN <<TextWidth(FormatTime(w.timestamp_dt), m), TextWidth(FormatDate(w.timestamp_dt), m)>>
    ELSE <<TextWidth(FormatDate(w.timestamp_dt), m)>>

\* their heights
MeasuredHeights(w, m) ==
    IF w.dual_stamp THEN <<m.time_height, m.date_height>> ELSE <<m.date_height>>

Drawing(w, m) ==
    /\ drawn' = add_timestamp_with_pillow(w, FileOf(ov_in.file), m)
    /\ ov_in' = [file |-> ov_in.file, called |-> TRUE,
                 font_size_index |-> font_size_index,
                 dual_timestamp |-> dual_timestamp,
                 text_width |-> MeasuredWidths(w, m),
                 text_height |-> MeasuredHeights(w, m)]

DrawOverlay ==
    /\ ~ov_in.called
    /\ \E m \in FontMetrics(get_font_size(font_size_index)) :
         Drawing(NewPillowWorker(1, ov_in.file, get_timestamp(FileOf(ov_in.file)).dt), m)
    /\ UNCHANGED <<app_vars, ts_in, ts_out>>

NextOverlay ==
    \/ \E i \in 0..2 : select_font_size(i)
    \/ toggle_dual_timestamp
    \/ DrawOverlay

SpecOverlay == InitOverlay /\ [][NextOverlay]_vars

(***************************************************************************)
(* Claims.                                                                 *)
(***************************************************************************)

\* What the precedence EXIF > file name > modification time > None gives for
\* a file.  "The pattern of the file name" is read as re.search reads it: the
\* leftmost match.
ExifParse(file) ==
    IF file.exif.kind = "tag" THEN strptime(file.exif.text, ExifFormat)
    ELSE [ok |-> FALSE, dt |-> <<>>]

NameParse(file) ==
    IF re_search(file.name).found
    THEN strptime(re_search(file.name).text, FileNameFormat)
    ELSE [ok |-> FALSE, dt |-> <<>>]

ByPrecedence(file) ==
    IF ExifParse(file).ok THEN [outcome |-> "dt", dt |-> ExifParse(file).dt]
    ELSE IF NameParse(file).ok THEN [outcome |-> "dt", dt |-> NameParse(file).dt]
    ELSE IF file.mtime.ok
         THEN [outcome |-> "dt", dt |-> fromtimestamp(file.mtime.t)]
         ELSE [outcome |-> "none", dt |-> <<>>]

\* C1: get_timestamp returns the EXIF DateTimeOriginal when it is present and
\* parses; otherwise the date and time of the file name when it has the
\* pattern and it parses; otherwise the modification time; otherwise None.
C1_Precedence ==
    ts_out # NotCalled =>
        /\ ts_out.outcome = ByPrecedence(ts_in).outcome
        /\ ts_out.dt = ByPrecedence(ts_in).dt

\* get_timestamp has returned for a file that has every source
C1_Witness ==
    /\ ts_out # NotCalled
    /\ ExifParse(ts_in).ok /\ NameParse(ts_in).ok /\ ts_in.mtime.ok
    /\ ts_out.dt = ExifParse(ts_in).dt

(***************************************************************************)
(* The stamping run.                                                       *)
(***************************************************************************)
PillowSignals == SelectSeq(events, LAMBDA e : e.sig = "pillow_finished")

\* a PillowWorker is running or its finished signal waits for the GUI thread
StampingBusy == pillow_threads # {} \/ PillowSignals # <<>>

\* a run has been started and nothing of it is left to happen
RunAtRest == runs > 0 /\ all_jpg_files # <<>> /\ ~StampingBusy

\* the file cannot be stamped: no timestamp, or the image cannot be opened,
\* read or saved
FileFails(name) ==
    \/ get_timestamp(FileOf(name)).outcome # "dt"
    \/ FileOf(name).mode # "RGB"
    \/ FileOf(name).exif.kind \in {"oserror", "attrerror"}

LoggedFor(name) == \E i \in 1..Len(log) : log[i].file = name

\* C2: every file of the run that fails gets a log line and the run goes on
\* past it: once nothing of the run is pending, each failed file up to the
\* current one is named in the log and current_file_index is beyond it.
C2_FailuresLoggedAndPassed ==
    RunAtRest =>
        \A k \in 0..(Len(all_jpg_files) - 1) :
            (k <= current_file_index /\ FileFails(all_jpg_files[k + 1])) =>
                /\ LoggedFor(all_jpg_files[k + 1])
                /\ current_file_index > k

\* C3: stamping is serial.  At most one PillowWorker runs, none runs while a
\* finished signal is unhandled (so the next worker starts only in the slot
\* that handles the previous one's signal), the worker that runs is the one
\* of the file at current_file_index, and the stamp button is disabled while
\* a worker runs or its signal is pending.
C3_Serial ==
    /\ Cardinality(pillow_threads) + Len(PillowSignals) <= 1
    /\ \A w \in pillow_threads :
           /\ current_file_index < Len(all_jpg_files)
           /\ w.source_path = all_jpg_files[current_file_index + 1]
           /\ w.id = worker
    /\ StampingBusy => ~stamp_button

\* the second worker of a run is running, the first one's signal handled
C3_Witness ==
    /\ Len(started) = 2
    /\ \E w \in pillow_threads : w.id = started[2].id
    /\ \E i \in 1..Len(log) : log[i] = LogLine("Processed:", started[1].file)

\* how often index k of the run was handled: a worker started or a skip
TimesHandled(k) ==
    Cardinality({i \in 1..Len(started) : started[i].index = k}) +
        (IF k \in skipped THEN 1 ELSE 0)

\* C4: each file of the list taken at the start of the run is handled exactly
\* once: when nothing of the run is pending, every index of the list has been
\* handled once and current_file_index is the length of the list.
C4_EachFileOnce ==
    RunAtRest =>
        /\ \A k \in 0..(Len(all_jpg_files) - 1) : TimesHandled(k) = 1
        /\ current_file_index = Len(all_jpg_files)

\* every file of the run was written to the destination folder
AllStamped ==
    \A k \in 1..Len(all_jpg_files) :
        /\ ~FileFails(all_jpg_files[k])
        /\ StampedName(all_jpg_files[k]) \in dest_dir

\* C9: the report at the end of a run is truthful: when the run has ended
\* with 'All images processed successfully!' as the last line, or with the
\* status 'Complete', every file of the run was stamped.
C9_TruthfulReport ==
    (RunAtRest /\ stamp_button /\
        (status_indicator = "Complete" \/
         log[Len(log)] = LogLine("All images processed successfully!", NoName)))
    => AllStamped

\* C10: every run ends: when nothing of a started run is pending, the run is
\* past its last file and the stamp button is enabled again.
C10_RunEnds ==
    RunAtRest => (stamp_button /\ current_file_index = Len(all_jpg_files))

(***************************************************************************)
(* The two stages together.                                                *)
(***************************************************************************)
\* C7: there is a single background worker: at most one worker thread of any
\* kind, PillowWorker or VideoWorker, runs at any time.
C7_SingleBackgroundWorker ==
    Cardinality(pillow_threads) + Cardinality(video_threads) <= 1

(***************************************************************************)
(* The video stage.                                                        *)
(***************************************************************************)
\* the numbers the entries of the dropdowns stand for
CrfValue(index) == IF index = 0 THEN 17 ELSE IF index = 1 THEN 10 ELSE 6

FpsValue(index) == IF index = 0 THEN 15 ELSE 30

\* the -crf and -framerate arguments are what was selected at the click
ArgumentsAsSelected ==
    \A i \in 1..Len(encoder_calls) :
        /\ ToInt(encoder_calls[i].command.crf) = CrfValue(encoder_calls[i].selected.crf_index)
        /\ ToInt(encoder_calls[i].command.framerate) =
               FpsValue(encoder_calls[i].selected.fps_index)

\* video runs whose thread has ended
VideoRunsEnded == video_runs - Cardinality(video_threads)

\* runs that ended with an exception in run(): signalled, or logged already
VideoRunsRaised ==
    Cardinality({i \in 1..Len(events) :
                    events[i] = VideoFinished(FALSE, "Error creating video")}) +
    Cardinality({i \in 1..Len(log) : log[i] = LogLine("Error creating video", NoName)})

\* C5 as stated: each video run invokes the encoder exactly once, with the
\* CRF and FPS selected at the click.
C5_EncoderExactlyOnce ==
    /\ Len(encoder_calls) = VideoRunsEnded
    /\ ArgumentsAsSelected

\* C5 as amended: each video run invokes the encoder at most once, exactly
\* once unless run() raised before or while launching it, and the arguments
\* are those selected at the click whatever the dropdowns show later.
C5_EncoderAtMostOnce ==
    /\ \A i, j \in 1..Len(encoder_calls) :
           i # j => encoder_calls[i].id # encoder_calls[j].id
    /\ Len(encoder_calls) + VideoRunsRaised = VideoRunsEnded
    /\ ArgumentsAsSelected

\* the encoder has run after both dropdowns were changed
C5_Witness ==
    \E i \in 1..Len(encoder_calls) :
        /\ encoder_calls[i].selected.crf_index # crf_index
        /\ encoder_calls[i].selected.fps_index # fps_index

\* largest frame number whose name is checked on its own
MaxFrameIndex == 11

ImagePrefix == <<"i", "m", "a", "g", "e", "-">>

\* the number in image-<number>.jpg, -1 when the name has another form
FrameNumber(name) ==
    IF /\ Len(name) >= 14
       /\ StartsWith(name, ImagePrefix)
       /\ EndsWith(name, DotJpg)
       /\ AllDigits(SubSeq(name, 7, Len(name) - 4))
    THEN ToInt(SubSeq(name, 7, Len(name) - 4))
    ELSE -1

StampedIn(S) == {f \in S : IsStampedJpg(f)}

Renumbered(frames, listed) ==
    /\ {frames[k].src : k \in 1..Len(frames)} = StampedIn(listed)
    /\ Len(frames) = Cardinality(StampedIn(listed))
    /\ \A i, j \in 1..Len(frames) :
           i < j => /\ StrLess(frames[i].src, frames[j].src)
                    /\ frames[i].dst # frames[j].dst
    /\ \A k \in 1..Len(frames) : FrameNumber(frames[k].dst) = k - 1

\* C6: the stamped files are renumbered without gaps in sorted order: the
\* frames given to the encoder are exactly the stamped files of the folder,
\* each once, in ascending order of name, the k-th (from 0) under the name
\* image-<k in four digits>.jpg, no two under one name.
C6_Renumbering ==
    /\ \A i \in 1..Len(encoder_calls) :
           Renumbered(encoder_calls[i].frames, encoder_calls[i].listed)
    /\ \A v \in video_threads :
           v.phase = "encode" => Renumbered(v.temp_dir, v.listed)
    /\ \A n \in 0..MaxFrameIndex :
           FrameNumber(ImageName(n)) = n /\ Len(ImageName(n)) = 14

\* the encoder got several frames of a folder that also holds other files
C6_Witness ==
    \E i \in 1..Len(encoder_calls) :
        /\ Len(encoder_calls[i].frames) >= 2
        /\ encoder_calls[i].listed # StampedIn(encoder_calls[i].listed)

(***************************************************************************)
(* The placement of the overlay.                                           *)
(***************************************************************************)
\* the sizes of the 3-way preset
PresetFontSize(index) == <<24, 48, 72>>[index + 1]

\* line k of the overlay is right-aligned to the anchor W - 40
RightAligned(k) ==
    /\ drawn[k].x = FileOf(ov_in.file).width - ov_in.text_width[k] - 40
    /\ drawn[k].x + ov_in.text_width[k] = FileOf(ov_in.file).width - 40

\* line k is the date line, with its fixed padding from the bottom
DateLineAt(k) ==
    /\ drawn[k].text[5] = "-"
    /\ drawn[k].y = FileOf(ov_in.file).height - ov_in.text_height[k] - 30

\* line k is the time line, one font size and 40 pixels from the bottom
TimeLineAt(k) ==
    /\ drawn[k].text[3] = ":"
    /\ drawn[k].y = FileOf(ov_in.file).height - ov_in.text_height[k]
                        - PresetFontSize(ov_in.font_size_index) - 40

\* C8: every drawn line of width w is at x = W - w - 40; the date line of
\* height h is at y = H - h - 30; with dual stamping the time line is at
\* y = H - h - fs - 40, strictly above the date line; without it only the
\* date line is drawn; at most two lines are drawn.
C8_Placement ==
    ov_in.called =>
        /\ Len(drawn) <= 2
        /\ \A k \in 1..Len(drawn) : RightAligned(k)
        /\ IF ov_in.dual_timestamp
           THEN /\ Len(drawn) = 2
                /\ TimeLineAt(1)
                /\ DateLineAt(2)
                /\ drawn[1].y < drawn[2].y
           ELSE /\ Len(drawn) = 1
                /\ DateLineAt(1)

\* two lines drawn at the largest size, the date line measured the taller
C8_Witness ==
    /\ ov_in.called
    /\ ov_in.dual_timestamp
    /\ ov_in.font_size_index = 2
    /\ Len(drawn) = 2
    /\ ov_in.text_height[2] > ov_in.text_height[1]

(***************************************************************************)
(* The buttons of the video stage.                                         *)
(***************************************************************************)
\* the log lines that start or end a video run or start a confirmed deletion
VideoHistoryLines ==
    {"Starting video creation with CRF and FPS", "Video created successfully",
     "FFmpeg error", "Error creating video", "Deleting stamped images..."}

IsVideoHistory(line) == line.msg \in VideoHistoryLines

VideoHistory == SelectSeq(log, IsVideoHistory)

\* the last of these lines, "" when there is none
LastVideoHistory ==
    IF VideoHistory = <<>> THEN "" ELSE VideoHistory[Len(VideoHistory)].msg

\* while a VideoWorker runs both buttons are disabled and it is the only one
ButtonsWhileVideoRuns ==
    /\ Cardinality(video_threads) <= 1
    /\ video_threads # {} => (~create_video_button /\ ~delete_stamped_button)

\* the Delete button is enabled only after a video run that succeeded and
\* before the next run starts, whatever deletions were confirmed
DeleteOnlyAfterVideoReady ==
    delete_stamped_button =>
        LastVideoHistory \in {"Video created successfully", "Deleting stamped images..."}

\* C11: while a VideoWorker is running the Create Video and the Delete
\* buttons are disabled, so no second VideoWorker starts and nothing is
\* deleted during assembly; the Delete button is enabled only when the most
\* recent video run finished successfully and no deletion has been confirmed
\* since.
C11_VideoButtons ==
    /\ ButtonsWhileVideoRuns
    /\ delete_stamped_button => LastVideoHistory = "Video created successfully"

\* C11 without its last clause: what holds of the buttons in every state.
C11_ButtonsExceptAfterFailedDeletion ==
    /\ ButtonsWhileVideoRuns
    /\ DeleteOnlyAfterVideoReady
    /\ (delete_stamped_button /\ LastVideoHistory = "Deleting stamped images...")
           => slot_exception

\* a confirmed deletion ran to its end and disabled the button
C11_DeletionDone ==
    /\ ~delete_stamped_button
    /\ \E i \in 1..Len(log) : log[i].msg = "Deleted files."
    /\ dest_dir = {f \in dest_dir : ~IsStampedJpg(f)}

=============================================================================
